---- MODULE Spec2Model ----
(***************************************************************************)
(* multiping: the per-connection workers (connection.rs), the connection   *)
(* registry (connection.rs) and the dispatch loop that drives the registry *)
(* from the shared inbound queue.                                          *)
(***************************************************************************)
EXTENDS Integers, Sequences, FiniteSets, TLC

\* ---------------------------------------------------------------- bounds
MaxConns == 2      \* connections ever created (bounds next_id)
MaxQueue == 0      \* a call starts only while every control queue is at most this long
MaxSock  == 1      \* messages a client has written that the server has not read
MaxSends == 2      \* messages written by all clients together
MaxHeld  == 1      \* Connections a caller owns directly at a time
MaxLines == 2      \* lines a client writes back-to-back on its stream
MaxIncoming == 5   \* connection attempts the listener of server.rs has not yet taken
MaxWriters == 1    \* connections of the writer worker taken by itself
MaxBacklog == 3    \* actions the holder of a writer's Sender sends in all

\* ids of the connections of the registry and of the server
ConnIds == 0 .. (MaxConns - 1)
\* the scenarios with a sender and two other clients take one connection more
Ids == 0 .. MaxConns

\* ---------------------------------------------------------------- messages
\* message.rs, enum Message; the payload of Text/Error is left out
Message == {"Ping", "Text", "InvalidMessage", "Disconnect", "Error"}

\* what the clients of the model write on their sockets
ClientMessage == {"Ping", "Disconnect"}

\* connection.rs, enum Action
ActionForward(msg) == [a |-> "Forward", m |-> msg]
ActionDisconnect == [a |-> "Disconnect", m |-> "none"]

VARIABLES
    next_id,      \* ConnectionRegistry.next_id
    connections,  \* keys of ConnectionRegistry.connections
    held,         \* Connections made by Connection::new and owned by the caller
    send_worker,  \* Connection.send_worker is Some
    recv_worker,  \* Connection.recv_worker is Some
    send_tx,      \* queue of the channel whose Sender is Connection.send_tx
    recv_tx,      \* queue of the channel whose Sender is Connection.recv_tx
    queued,       \* per connection, every Action sent on the writer's channel, in order
    reader,       \* position of the thread spawned by spawn_recv_worker
    writer,       \* position of the thread spawned by spawn_send_worker
    sockIn,       \* messages written by the client, not yet read by the server
    peerClosed,   \* the client has closed its socket
    sockOut,      \* messages written to the client's socket by the writer
    sent,         \* number of messages written by clients so far
    inbound,      \* the shared queue of (id, message) pairs
    dispatch,     \* position of the dispatch loop
    taken,        \* the pairs the dispatch loop has taken, each with AllLive then
    got,          \* the pairs the dispatch loop has received, in order
    recvd,        \* per connection, the messages Message::recv has returned, in order
    incoming,     \* server.rs: results of listener.incoming() not yet taken
    listener,     \* server.rs: position of the listener thread of Server::run
    clients,      \* server.rs: keys of RemoteClients.clients
    remote_next_id, \* server.rs: RemoteClients.next_id
    poisoned,     \* server.rs: the mutexes of the client registry are poisoned
    server_lock,  \* server.rs: the thread that holds the guard of Server.clients
    map_lock,     \* server.rs: the thread that holds the guard of RemoteClients.clients
    main,         \* server.rs: position of the thread that owns the Server
    drained,      \* server.rs: the clients terminate_all's Drain has still to yield
    worker,       \* server.rs: position of the thread of each RemoteClient
    mail,         \* server.rs: queue of the channel whose Sender is RemoteClient.sender
    aborted,      \* the process has aborted (panic while panicking)
    issued,       \* ids returned by add, in call order
    last,         \* the last call made on the registry or on a held Connection
    ev            \* what that call did, in order

vars == <<next_id, connections, held, send_worker, recv_worker, send_tx, recv_tx,
          queued, reader, writer, sockIn, peerClosed, sockOut, sent, inbound, dispatch,
          taken, got, recvd, incoming, listener, clients, remote_next_id, poisoned,
          server_lock, map_lock, main, drained, worker, mail,
          aborted, issued, last, ev>>

regVars == <<next_id, connections, held, send_worker, recv_worker, issued>>
\* the listener of server.rs and its client registry
lockVars == <<server_lock, map_lock, main, drained, worker, mail>>
srvVars == <<incoming, listener, clients, remote_next_id, poisoned, lockVars>>
\* the connections, their registry and their callers (connection.rs)
connVars == <<next_id, connections, held, send_worker, recv_worker, send_tx, recv_tx,
              queued, reader, writer, sockIn, peerClosed, sockOut, sent, inbound, dispatch,
              taken, got, recvd, aborted, issued, last, ev>>
envVars == <<sockIn, peerClosed, sockOut, sent, inbound, dispatch, taken, got, recvd, srvVars>>
sockVars == <<sockIn, peerClosed, sockOut, sent>>

\* ---------------------------------------------------------------- helpers
Orders(S) == {f \in [1 .. Cardinality(S) -> S] : \A i, j \in DOMAIN f : i # j => f[i] # f[j]}

\* an entry of ev: what happened, to which connection, on which channel, with
\* which Action, and whether it succeeded
Ev(kind, id, ch, act, ok) == [kind |-> kind, id |-> id, ch |-> ch, act |-> act, ok |-> ok]
NoAct == [a |-> "none", m |-> "none"]

Call(op, id, msg, res) == [op |-> op, id |-> id, msg |-> msg, res |-> res]
NoCall == Call("none", 0, "none", "Ok")

\* a step of a worker or of a client is no call: last and ev describe the
\* call that has just ended, in the state it ends in; only a call sends on a
\* control channel
NotACall == last' = NoCall /\ ev' = <<>> /\ queued' = queued

\* The part of the state a call on the registry or a Connection works on.
\* out: "run" while the call runs, "panic" once the calling thread unwinds,
\* "abort" when a second panic during unwinding has aborted the process.
\* ret: the Result of the last forward / remove / disconnect; val: the id
\* returned by add.
Cur == [next_id |-> next_id, connections |-> connections,
        send_worker |-> send_worker, recv_worker |-> recv_worker,
        send_tx |-> send_tx, recv_tx |-> recv_tx, reader |-> reader, writer |-> writer,
        ev |-> <<>>, out |-> "run", ret |-> "Ok", val |-> 0]

\* Connection::new: the Sender stored in send_tx belongs to the channel whose
\* Receiver went to spawn_recv_worker (the reader), the one stored in recv_tx
\* to the channel of spawn_send_worker (the writer).
ReceiverOf(ch) == IF ch = "send_tx" THEN "reader" ELSE "writer"

\* mpsc: a send succeeds as long as the Receiver has not been dropped, that
\* is as long as the receiving thread has not returned or panicked
ReceiverAlive(S, ch, id) ==
    IF ReceiverOf(ch) = "reader" THEN S.reader[id] \in {"poll", "read"}
    ELSE S.writer[id] = "run"

\* Sender::send(act) on channel ch of connection id
Send(S, ch, id, act) ==
    IF ReceiverAlive(S, ch, id)
    THEN IF ch = "send_tx"
         THEN [S EXCEPT !.send_tx[id] = Append(@, act),
                        !.ev = Append(@, Ev("send", id, ch, act, TRUE)), !.ret = "Ok"]
         ELSE [S EXCEPT !.recv_tx[id] = Append(@, act),
                        !.ev = Append(@, Ev("send", id, ch, act, TRUE)), !.ret = "Ok"]
    ELSE [S EXCEPT !.ev = Append(@, Ev("send", id, ch, act, FALSE)), !.ret = "SendError"]

\* a panic of the calling thread; a panic while it already unwinds aborts
Panic(S, id) ==
    [S EXCEPT !.out = IF S.out = "run" THEN "panic" ELSE "abort",
              !.ev = Append(@, Ev("panic", id, "none", NoAct, FALSE))]

\* ---------------------------------------------------------------- workers
\* a reader that takes a stop signal off its channel and reads on
RecvWorkerPoll_IgnoresStop(queue, sendersAlive) ==
    IF queue # <<>>
    THEN [pos |-> "read", queue |-> Tail(queue)]
    ELSE IF sendersAlive
         THEN [pos |-> "read", queue |-> queue]
         ELSE [pos |-> "err", queue |-> queue]

\* connection.rs, spawn_recv_worker: the poll of the control channel at the
\* top of 'main. Gives the reader's next position and what is left queued
\* (a thread that ends drops its Receiver, and with it what is still queued).
\* sendersAlive: the Connection (and so the Sender) still exists.
RecvWorkerPoll(queue, sendersAlive) ==
    IF queue # <<>>
    THEN IF Head(queue).a = "Disconnect"
         THEN [pos |-> "ok", queue |-> <<>>]              \* break 'main
         ELSE [pos |-> "panic", queue |-> <<>>]           \* cannot forward messages ...
    ELSE IF sendersAlive
         THEN [pos |-> "read", queue |-> queue]           \* TryRecvError::Empty
         ELSE [pos |-> "err", queue |-> queue]            \* TryRecvError::Disconnected

\* the reader thread returns or panics between two statements of the caller
\* (it was about to poll a non-empty control channel, or its blocking read
\* ends on a closed socket); the Connection still exists at that moment
ReaderDies(S, id) ==
    IF S.reader[id] = "poll" /\ S.send_tx[id] # <<>>
    THEN LET p == RecvWorkerPoll(S.send_tx[id], TRUE) IN
         [S EXCEPT !.reader[id] = p.pos, !.send_tx[id] = p.queue]
    ELSE IF S.reader[id] = "read" /\ sockIn[id] = <<>> /\ peerClosed[id]
         THEN [S EXCEPT !.reader[id] = "err", !.send_tx[id] = <<>>]
         ELSE S

\* ---------------------------------------------------------------- Connection
\* Connection::new: the two workers are spawned; cloneOk: stream.try_clone()
\* succeeds (its failure panics before any worker is spawned)
Connection_new(S, id, cloneOk) ==
    IF cloneOk
    THEN [S EXCEPT !.reader[id] = "poll", !.writer[id] = "run",
                   !.send_worker[id] = TRUE, !.recv_worker[id] = TRUE,
                   !.send_tx[id] = <<>>, !.recv_tx[id] = <<>>,
                   !.ev = Append(@, Ev("new", id, "none", NoAct, TRUE))]
    ELSE Panic(S, id)

\* Connection::forward
Connection_forward(S, id, msg) ==
    LET S1 == Send(S, "send_tx", id, ActionForward(msg)) IN
    IF S1.ret = "Ok"
    THEN Panic(S1, id)                                   \* Ok(()) => unimplemented!()
    ELSE [S1 EXCEPT !.ret = "SenderDisconnected"]

\* a disconnect that gives up at the first stop signal that cannot be sent
DisconnectWorkers_EarlyReturn(S, id) ==
    LET S2 == IF S.send_worker[id]
              THEN Send([S EXCEPT !.send_worker[id] = FALSE], "send_tx", id, ActionDisconnect)
              ELSE S
    IN  IF S.send_worker[id] /\ S2.ret # "Ok" THEN S2
        ELSE IF S2.recv_worker[id]
        THEN Send([S2 EXCEPT !.recv_worker[id] = FALSE], "recv_tx", id, ActionDisconnect)
        ELSE S2

\* the two stop signals of Connection::disconnect, after its forward
DisconnectWorkers(S, id) ==
    LET S2 == IF S.send_worker[id]
              THEN Send([S EXCEPT !.send_worker[id] = FALSE], "send_tx", id, ActionDisconnect)
              ELSE S
        S3 == IF S2.recv_worker[id]
              THEN Send([S2 EXCEPT !.recv_worker[id] = FALSE], "recv_tx", id, ActionDisconnect)
              ELSE S2
    IN  S3

\* Connection::disconnect
Connection_disconnect(S, id) ==
    LET S0 == [S EXCEPT !.ev = Append(@, Ev("disconnect", id, "none", NoAct, TRUE))]
        S1 == Connection_forward(S0, id, "Disconnect")
    IN  IF S1.out # S.out
        THEN S1                                          \* forward panicked
        ELSE [DisconnectWorkers(S1, id) EXCEPT
                 !.ev = Append(@, Ev("return", id, "none", NoAct, TRUE)), !.ret = "Ok"]

\* Drop for Connection; nothing runs any more once the process has aborted
Connection_drop(S, id) ==
    IF S.out = "abort" THEN S ELSE Connection_disconnect(S, id)

\* ---------------------------------------------------------------- ConnectionRegistry
\* add, with the id taken from the id given (what add does with its id)
AddWithId(S, id, cloneOk) ==
    LET S1 == Connection_new([S EXCEPT !.next_id = @ + 1], id, cloneOk)
    IN  IF S1.out # S.out THEN S1
        ELSE IF id \in S1.connections
        THEN Panic([S1 EXCEPT !.ev = Append(@, Ev("dup", id, "none", NoAct, FALSE))], id)
        ELSE [S1 EXCEPT !.connections = @ \cup {id},
                        !.ev = Append(@, Ev("insert", id, "none", NoAct, TRUE)),
                        !.ret = "Ok", !.val = id]

\* a registry that takes the number of live connections as the next id
Registry_add_LenId(S, cloneOk) == AddWithId(S, Cardinality(S.connections), cloneOk)

\* ConnectionRegistry::add: `let id = self.next_id; self.next_id += 1;`
Registry_add(S, cloneOk) == AddWithId(S, S.next_id, cloneOk)

\* a remove that answers Ok for a key the map does not hold
Registry_remove_AbsentOk(S, id) ==
    [S EXCEPT !.connections = @ \ {id},
              !.ev = Append(@, Ev("remove", id, "none", NoAct, TRUE)), !.ret = "Ok"]

\* ConnectionRegistry::remove
Registry_remove(S, id) ==
    IF id \in S.connections
    THEN [S EXCEPT !.connections = @ \ {id},
                   !.ev = Append(@, Ev("remove", id, "none", NoAct, TRUE)), !.ret = "Ok"]
    ELSE [S EXCEPT !.ev = Append(@, Ev("remove", id, "none", NoAct, FALSE)),
                   !.ret = "InvalidConnectionId"]

\* ConnectionRegistry::disconnect: remove, then conn.disconnect() in the
\* closure, whose parameter conn is dropped when the closure ends or unwinds.
\* raced: the reader thread ends between the panic and that drop.
Registry_disconnect(S, id, raced) ==
    LET R  == Registry_remove(S, id) IN
    IF R.ret # "Ok" THEN R
    ELSE LET S1 == Connection_disconnect(R, id)
             S2 == IF S1.out # R.out /\ raced THEN ReaderDies(S1, id) ELSE S1
             S3 == Connection_drop(S2, id)
         IN  [S3 EXCEPT !.ret = "Ok"]

\* a pass that skips nobody
SkipSource_Never(id, source) == FALSE

\* forward_to_all: `if id == source { continue; }`
SkipSource(id, source) == id = source

\* forward_to_all: the pass over connections.iter_mut(), in the order the map
\* yields them; dead is dead_conns
RECURSIVE ForwardPass(_, _, _, _, _)
ForwardPass(S, order, msg, source, dead) ==
    IF order = <<>> THEN [st |-> S, dead |-> dead]
    ELSE LET id == Head(order) IN
         IF SkipSource(id, source)
         THEN ForwardPass(S, Tail(order), msg, source, dead)
         ELSE LET S1 == Connection_forward(S, id, msg) IN
              IF S1.out # S.out THEN [st |-> S1, dead |-> dead]
              ELSE IF S1.ret = "Ok"
                   THEN ForwardPass(S1, Tail(order), msg, source, dead)
                   ELSE ForwardPass(S1, Tail(order), msg, source, Append(dead, id))

\* a forward_to_all that forgets the connections it found dead
RemoveDead_Forgotten(S, dead) == S

\* forward_to_all: `for id in dead_conns { self.disconnect(id).unwrap_or_else(panic) }`
RECURSIVE RemoveDead(_, _)
RemoveDead(S, dead) ==
    IF dead = <<>> THEN S
    ELSE LET S1 == Registry_disconnect(S, Head(dead), FALSE) IN
         IF S1.out # S.out THEN S1
         ELSE IF S1.ret # "Ok" THEN Panic(S1, Head(dead))
         ELSE RemoveDead(S1, Tail(dead))

\* ConnectionRegistry::forward_to_all
Registry_forward_to_all(S, order, msg, source) ==
    LET P == ForwardPass(S, order, msg, source, <<>>) IN
    IF P.st.out # S.out THEN P.st
    ELSE LET S1 == RemoveDead([P.st EXCEPT !.ev = Append(@, Ev("pass_done", source, "none", NoAct, TRUE))],
                              P.dead)
         IN  IF S1.out # S.out THEN S1 ELSE [S1 EXCEPT !.ret = "Ok"]

\* disconnect_all: the loop over connections.drain(). Each conn is dropped at
\* the end of its iteration; when an iteration panics, unwinding drops conn
\* and then the Drain, which drops every connection not yet yielded.
RECURSIVE DrainAll(_, _, _)
DrainAll(S, order, raced) ==
    IF order = <<>> \/ S.out = "abort" THEN S
    ELSE LET id == Head(order)
             S1 == IF S.out = "run" THEN Connection_disconnect(S, id) ELSE S
             S2 == IF S1.out # S.out /\ raced THEN ReaderDies(S1, id) ELSE S1
             S3 == Connection_drop(S2, id)
         IN  DrainAll(S3, Tail(order), raced)

\* ConnectionRegistry::disconnect_all
Registry_disconnect_all(S, order, raced) ==
    LET S1 == DrainAll([S EXCEPT !.connections = {}], order, raced) IN
    IF S1.out # S.out THEN S1 ELSE [S1 EXCEPT !.ret = "Ok"]

\* ---------------------------------------------------------------- state machine
Init ==
    /\ next_id = 0
    /\ connections = {}
    /\ held = {}
    /\ send_worker = [i \in Ids |-> FALSE]
    /\ recv_worker = [i \in Ids |-> FALSE]
    /\ send_tx = [i \in Ids |-> <<>>]
    /\ recv_tx = [i \in Ids |-> <<>>]
    /\ queued = [i \in Ids |-> <<>>]
    /\ reader = [i \in Ids |-> "none"]
    /\ writer = [i \in Ids |-> "none"]
    /\ sockIn = [i \in Ids |-> <<>>]
    /\ peerClosed = [i \in Ids |-> FALSE]
    /\ sockOut = [i \in Ids |-> <<>>]
    /\ sent = 0
    /\ inbound = <<>>
    /\ dispatch = "run"
    /\ taken = {}
    /\ got = <<>>
    /\ recvd = [i \in Ids |-> <<>>]
    /\ incoming = <<>>
    /\ listener = "run"
    /\ clients = {}
    /\ remote_next_id = 0
    /\ poisoned = FALSE
    /\ server_lock = "free"
    /\ map_lock = "free"
    /\ main = "run"
    /\ drained = <<>>
    /\ worker = [i \in Ids |-> "none"]
    /\ mail = [i \in Ids |-> <<>>]
    /\ aborted = FALSE
    /\ issued = <<>>
    /\ last = NoCall
    /\ ev = <<>>

\* the Sender halves of connection id still exist
SendersAlive(id) == id \in connections \cup held

\* a caller starts a call only while the process runs and the queues are short
CanCall == ~aborted /\ \A i \in Ids : Len(send_tx[i]) <= MaxQueue

Outcome(R) == IF R.out = "run" THEN R.ret ELSE R.out

\* what a call that leaves the writers' queues as in R has sent on them: a
\* call only appends to these queues
Enqueued(R) ==
    [i \in Ids |-> queued[i] \o SubSeq(R.recv_tx[i], Len(recv_tx[i]) + 1, Len(R.recv_tx[i]))]

\* the state a call leaves behind
Commit(R) ==
    /\ queued' = Enqueued(R)
    /\ next_id' = R.next_id
    /\ connections' = R.connections
    /\ send_worker' = R.send_worker
    /\ recv_worker' = R.recv_worker
    /\ send_tx' = R.send_tx
    /\ recv_tx' = R.recv_tx
    /\ reader' = R.reader
    /\ writer' = R.writer
    /\ ev' = R.ev
    /\ aborted' = (R.out = "abort")

\* a call of ConnectionRegistry::add, by a thread that has accepted a stream
AddCall(cloneOk) ==
    LET R == Registry_add(Cur, cloneOk) IN
    /\ Commit(R)
    /\ last' = Call("add", R.val, "none", Outcome(R))
    /\ issued' = IF R.out = "run" THEN Append(issued, R.val) ELSE issued
    /\ UNCHANGED <<held, envVars>>

\* a caller of ConnectionRegistry::add
Add(cloneOk) ==
    /\ CanCall
    /\ next_id < MaxConns
    /\ AddCall(cloneOk)

\* a caller of ConnectionRegistry::remove; the Connection it gets is dropped
\* when the caller's statement ends
Remove(id) ==
    /\ CanCall
    /\ LET R0 == Registry_remove(Cur, id)
           R  == IF R0.ret = "Ok" THEN [Connection_drop(R0, id) EXCEPT !.ret = "Ok"] ELSE R0
       IN
       /\ Commit(R)
       /\ last' = Call("remove", id, "none", Outcome(R))
    /\ UNCHANGED <<held, issued, envVars>>

\* a caller of ConnectionRegistry::disconnect
RegDisconnect(id, raced) ==
    /\ CanCall
    /\ LET R == Registry_disconnect(Cur, id, raced) IN
       /\ Commit(R)
       /\ last' = Call("disconnect", id, "none", Outcome(R))
    /\ UNCHANGED <<held, issued, envVars>>

\* a caller of ConnectionRegistry::forward_to_all
ForwardToAll(msg, source) ==
    /\ CanCall
    /\ \E order \in Orders(connections) :
          LET R == Registry_forward_to_all(Cur, order, msg, source) IN
          /\ Commit(R)
          /\ last' = Call("forward_to_all", source, msg, Outcome(R))
    /\ UNCHANGED <<held, issued, envVars>>

\* a caller of ConnectionRegistry::disconnect_all
DisconnectAll(raced) ==
    /\ CanCall
    /\ \E order \in Orders(connections) :
          LET R == Registry_disconnect_all(Cur, order, raced) IN
          /\ Commit(R)
          /\ last' = Call("disconnect_all", 0, "none", Outcome(R))
    /\ UNCHANGED <<held, issued, envVars>>

\* a caller makes a Connection of its own with Connection::new
NewConn(id, cloneOk) ==
    /\ CanCall
    /\ Cardinality(held) < MaxHeld
    /\ reader[id] = "none"
    /\ \A i \in ConnIds : i < id => reader[i] # "none"
    /\ LET R == Connection_new(Cur, id, cloneOk) IN
       /\ Commit(R)
       /\ last' = Call("new", id, "none", Outcome(R))
       /\ held' = IF R.out = "run" THEN held \cup {id} ELSE held
    /\ UNCHANGED <<issued, envVars>>

\* the owner of a Connection calls Connection::forward
HeldForward(id, msg) ==
    /\ CanCall
    /\ id \in held
    /\ LET R == Connection_forward(Cur, id, msg) IN
       /\ Commit(R)
       /\ last' = Call("forward", id, msg, Outcome(R))
    /\ UNCHANGED <<held, issued, envVars>>

\* the owner of a Connection calls Connection::disconnect
HeldDisconnect(id) ==
    /\ CanCall
    /\ id \in held
    /\ LET R == Connection_disconnect(Cur, id) IN
       /\ Commit(R)
       /\ last' = Call("conn_disconnect", id, "none", Outcome(R))
    /\ UNCHANGED <<held, issued, envVars>>

\* the owner of a Connection drops it
HeldDrop(id) ==
    /\ CanCall
    /\ id \in held
    /\ LET R == Connection_drop(Cur, id) IN
       /\ Commit(R)
       /\ last' = Call("drop", id, "none", Outcome(R))
    /\ held' = held \ {id}
    /\ UNCHANGED <<issued, envVars>>

\* spawn_recv_worker: the poll of the control channel
ReaderPoll(id) ==
    /\ ~aborted
    /\ NotACall
    /\ reader[id] = "poll"
    /\ LET p == RecvWorkerPoll(send_tx[id], SendersAlive(id)) IN
       /\ reader' = [reader EXCEPT ![id] = p.pos]
       /\ send_tx' = [send_tx EXCEPT ![id] = p.queue]
    /\ UNCHANGED <<regVars, recv_tx, writer, envVars, aborted>>

\* message.rs, Message::recv: serde_json::from_str decodes the line read; a
\* line that is no Message gives Error::JsonError
Decodes(line) == line \in Message

\* a relay that puts the pair in front of what is queued
InboundPush_Front(queue, pair) == <<pair>> \o queue

\* msg_tx.send((id, msg)): the pair goes to the end of the inbound queue
InboundPush(queue, pair) == Append(queue, pair)

\* a reader that logs a failure and goes round its loop again
RelayResult_LoopsOn(decoded, queueOpen) == "poll"

\* spawn_recv_worker: the `?` on the read-and-relay. A read or decode error
\* returns that error from the thread, a closed inbound queue returns
\* Error::SendError; otherwise the loop goes round to the poll.
RelayResult(decoded, queueOpen) ==
    IF ~decoded THEN "err"
    ELSE IF queueOpen THEN "poll" ELSE "send_err"

\* spawn_recv_worker with Message::recv: one blocking read through a fresh
\* BufReader, which takes what the socket holds (the first k lines here),
\* decodes the first line and is dropped with the rest; then msg_tx.send.
\* With nothing to read the call blocks until the peer closes (EOF: the empty
\* line does not decode).
ReaderRead(id) ==
    /\ ~aborted
    /\ NotACall
    /\ reader[id] = "read"
    /\ sockIn[id] # <<>> \/ peerClosed[id]
    /\ LET line    == IF sockIn[id] # <<>> THEN Head(sockIn[id]) ELSE "eof"
           decoded == Decodes(line)
           pos     == RelayResult(decoded, dispatch = "run")
       IN
       /\ \E k \in 1 .. (IF sockIn[id] # <<>> THEN Len(sockIn[id]) ELSE 1) :
               sockIn' = [sockIn EXCEPT ![id] = SubSeq(@, k + 1, Len(@))]
       /\ recvd' = [recvd EXCEPT ![id] = IF decoded THEN Append(@, line) ELSE @]
       /\ inbound' = IF decoded /\ dispatch = "run"
                     THEN InboundPush(inbound, <<id, line>>) ELSE inbound
       /\ reader' = [reader EXCEPT ![id] = pos]
       /\ send_tx' = [send_tx EXCEPT ![id] = IF pos = "poll" THEN @ ELSE <<>>]
    /\ UNCHANGED <<regVars, recv_tx, writer, peerClosed, sockOut, sent,
                   dispatch, taken, got, srvVars, aborted>>

\* a writer that logs a failed write and goes on with the next action
SendWorkerTurn_SkipsFailedWrite(queue, writeOk) ==
    IF queue = <<>> THEN [pos |-> "ok", queue |-> queue, wrote |-> <<>>]
    ELSE IF Head(queue).a = "Disconnect"
    THEN [pos |-> "ok", queue |-> <<>>, wrote |-> <<>>]
    ELSE [pos |-> "run", queue |-> Tail(queue),
          wrote |-> IF writeOk THEN <<Head(queue).m>> ELSE <<>>]

\* connection.rs, spawn_send_worker: one turn of `for action in action_rx`,
\* taken when an action is queued or the channel is closed. Gives the
\* writer's next position, what is left queued (a thread that ends drops its
\* Receiver, and with it what is still queued) and what it wrote.
\* writeOk: msg.write(&mut stream) succeeds.
SendWorkerTurn(queue, writeOk) ==
    IF queue = <<>> THEN [pos |-> "ok", queue |-> queue, wrote |-> <<>>]   \* channel closed
    ELSE IF Head(queue).a = "Disconnect"
    THEN [pos |-> "ok", queue |-> <<>>, wrote |-> <<>>]                    \* break
    ELSE IF writeOk
    THEN [pos |-> "run", queue |-> Tail(queue), wrote |-> <<Head(queue).m>>]
    ELSE [pos |-> "err", queue |-> <<>>, wrote |-> <<>>]                   \* `?` on write

\* spawn_send_worker: one turn of `for action in action_rx`; a write to a
\* socket whose peer is gone may still succeed or fail
WriterStep(id) ==
    /\ ~aborted
    /\ NotACall
    /\ writer[id] = "run"
    /\ ~(recv_tx[id] = <<>> /\ SendersAlive(id))        \* else blocked on the channel
    /\ \E ok \in (IF peerClosed[id] /\ recv_tx[id] # <<>> /\ Head(recv_tx[id]).a = "Forward"
                  THEN BOOLEAN ELSE {TRUE}) :
          LET t == SendWorkerTurn(recv_tx[id], ok) IN
          /\ writer' = [writer EXCEPT ![id] = t.pos]
          /\ recv_tx' = [recv_tx EXCEPT ![id] = t.queue]
          /\ sockOut' = [sockOut EXCEPT ![id] = @ \o t.wrote]
    /\ UNCHANGED <<regVars, send_tx, reader, sockIn, peerClosed, sent, inbound,
                   dispatch, taken, got, recvd, srvVars, aborted>>

\* a client whose connection is still read writes one message
ClientSend(id, msg) ==
    /\ ~aborted
    /\ NotACall
    /\ reader[id] \in {"poll", "read"}
    /\ ~peerClosed[id]
    /\ Len(sockIn[id]) < MaxSock
    /\ sent < MaxSends
    /\ sockIn' = [sockIn EXCEPT ![id] = Append(@, msg)]
    /\ sent' = sent + 1
    /\ UNCHANGED <<regVars, send_tx, recv_tx, reader, writer, peerClosed, sockOut,
                   inbound, dispatch, taken, got, recvd, srvVars, aborted>>

\* a client writes a message while earlier lines of its are still unread
ClientWrite(id, msg) ==
    /\ ~aborted
    /\ NotACall
    /\ reader[id] \in {"poll", "read"}
    /\ ~peerClosed[id]
    /\ Len(sockIn[id]) < MaxLines
    /\ sent < MaxSends
    /\ sockIn' = [sockIn EXCEPT ![id] = Append(@, msg)]
    /\ sent' = sent + 1
    /\ UNCHANGED <<regVars, send_tx, recv_tx, reader, writer, peerClosed, sockOut,
                   inbound, dispatch, taken, got, recvd, srvVars, aborted>>

\* a client whose connection still has a worker closes its socket
ClientClose(id) ==
    /\ ~aborted
    /\ NotACall
    /\ reader[id] \in {"poll", "read"} \/ writer[id] = "run"
    /\ ~peerClosed[id]
    /\ peerClosed' = [peerClosed EXCEPT ![id] = TRUE]
    /\ UNCHANGED <<regVars, send_tx, recv_tx, reader, writer, sockIn, sockOut, sent,
                   inbound, dispatch, taken, got, recvd, srvVars, aborted>>

Workers ==
    \E id \in Ids : ReaderPoll(id) \/ ReaderRead(id) \/ WriterStep(id)

Clients ==
    \E id \in Ids : ClientClose(id) \/ \E msg \in ClientMessage : ClientSend(id, msg)

\* The registry with its callers, the workers, and clients that go away.
Next ==
    \/ \E cloneOk \in BOOLEAN : Add(cloneOk)
    \/ \E id \in ConnIds : Remove(id)
    \/ \E id \in ConnIds, raced \in BOOLEAN : RegDisconnect(id, raced)
    \/ \E source \in ConnIds : ForwardToAll("Ping", source)
    \/ \E raced \in BOOLEAN : DisconnectAll(raced)
    \/ Workers
    \/ \E id \in ConnIds : ClientClose(id)

Spec == Init /\ [][Next]_vars

\* The registry with the callers of add, remove and disconnect only.
NextRegistry ==
    \/ \E cloneOk \in BOOLEAN : Add(cloneOk)
    \/ \E id \in ConnIds : Remove(id)
    \/ \E id \in ConnIds, raced \in BOOLEAN : RegDisconnect(id, raced)
    \/ Workers
    \/ \E id \in ConnIds : ClientClose(id)

Registry == Init /\ [][NextRegistry]_vars

\* Connections made and owned by a caller, with their workers and clients.
NextConn ==
    \/ \E id \in ConnIds, cloneOk \in BOOLEAN : NewConn(id, cloneOk)
    \/ \E id \in ConnIds : HeldForward(id, "Ping")
    \/ \E id \in ConnIds : HeldDisconnect(id)
    \/ \E id \in ConnIds : HeldDrop(id)
    \/ Workers
    \/ Clients

ConnSpec == Init /\ [][NextConn]_vars

\* ---------------------------------------------------------------- server
\* every connection of the server is registered and alive
AllLive ==
    /\ connections = Ids
    /\ \A c \in Ids : reader[c] \in {"poll", "read"} /\ writer[c] = "run"

\* ids whose Disconnect the dispatch loop has handled
disconnected == {t.id : t \in {u \in taken : u.msg = "Disconnect"}}

\* the accept activity: each accepted stream is registered; the server takes
\* max connections in all
Accept(cloneOk, max) ==
    /\ ~aborted
    /\ next_id < max
    /\ AddCall(cloneOk)

\* the end of one round of the dispatch loop: the call's result decides
\* whether the loop goes on. A panic ends the dispatch thread, an Err ends
\* the loop; the thread's end drops the Receiver of the inbound queue and
\* what is queued there.
DispatchEnd(R, op, id, msg) ==
    /\ Commit(R)
    /\ last' = Call(op, id, msg, Outcome(R))
    /\ dispatch' = IF R.out # "run" THEN "panic"
                   ELSE IF R.ret = "Ok" THEN "run" ELSE "err"
    /\ inbound' = IF R.out = "run" /\ R.ret = "Ok" THEN Tail(inbound) ELSE <<>>
    /\ taken' = taken \cup {[id |-> id, msg |-> msg, live |-> AllLive]}
    /\ got' = Append(got, <<id, msg>>)

\* a dispatch loop that broadcasts whatever is no Disconnect
IsBroadcast_Any(msg) == msg # "Disconnect"

\* the tags the dispatch loop routes to the other connections
IsBroadcast(msg) == msg \in {"Ping", "Text"}

\* the dispatch activity: one (id, msg) pair taken from the inbound queue
Dispatch(raced) ==
    /\ ~aborted
    /\ dispatch = "run"
    /\ inbound # <<>>
    /\ \E id \in Ids, msg \in Message :
          /\ Head(inbound) = <<id, msg>>
          /\ IF IsBroadcast(msg)
             THEN \E order \in Orders(connections) :
                     DispatchEnd(Registry_forward_to_all(Cur, order, msg, id),
                                 "forward_to_all", id, msg)
             ELSE IF msg = "Disconnect"
             THEN DispatchEnd(Registry_disconnect(Cur, id, raced), "disconnect", id, msg)
             ELSE /\ dispatch' = "err"                 \* Error::UnexpectedMessage
                  /\ inbound' = <<>>
                  /\ last' = Call("dispatch", id, msg, "UnexpectedMessage")
                  /\ ev' = <<>>
                  /\ got' = Append(got, <<id, msg>>)
                  /\ UNCHANGED <<queued, next_id, connections, send_worker, recv_worker, send_tx,
                                 recv_tx, reader, writer, taken, aborted>>
    /\ UNCHANGED <<held, sockIn, peerClosed, sockOut, sent, issued, recvd, srvVars>>

NextServer ==
    \/ \E cloneOk \in BOOLEAN : Accept(cloneOk, MaxConns)
    \/ \E raced \in BOOLEAN : Dispatch(raced)
    \/ Workers
    \/ Clients

Server == Init /\ [][NextServer]_vars

\* the server of the scenarios: a sender and two other clients
NextScenario ==
    \/ \E cloneOk \in BOOLEAN : Accept(cloneOk, MaxConns + 1)
    \/ \E raced \in BOOLEAN : Dispatch(raced)
    \/ Workers
    \/ Clients

Scenario == Init /\ [][NextScenario]_vars

\* the readers of the server with clients that write lines back-to-back
NextStream ==
    \/ \E cloneOk \in BOOLEAN : Accept(cloneOk, MaxConns)
    \/ \E id \in ConnIds : ReaderPoll(id) \/ ReaderRead(id)
    \/ \E id \in ConnIds, msg \in ClientMessage : ClientWrite(id, msg)

Stream == Init /\ [][NextStream]_vars

\* what the clients of the router and of the reader worker write: a message it routes, a message of
\* a tag it does not expect, and a line that is no message
Lines == {"Ping", "InvalidMessage", "garbage"}

\* the Sender that spawn_recv_worker returns, used by itself: its holder
\* sends act on the reader's control channel
ControlSend(id, act) ==
    /\ CanCall
    /\ id \in connections
    /\ LET R == Send(Cur, "send_tx", id, act) IN
       /\ Commit(R)
       /\ last' = Call("control_send", id, act.m, Outcome(R))
    /\ UNCHANGED <<held, issued, envVars>>

\* the actions the holder of a writer's Sender sends
WriterActions == {ActionForward("Ping"), ActionForward("Text"), ActionDisconnect}

\* actions sent on the writers' channels so far
RECURSIVE TotalQueued(_)
TotalQueued(ids) ==
    IF ids = {} THEN 0
    ELSE LET i == CHOOSE x \in ids : TRUE IN Len(queued[i]) + TotalQueued(ids \ {i})

\* the Sender that spawn_send_worker returns, used by itself: its holder
\* sends act on the writer's channel
WriterSend(id, act) ==
    /\ CanCall
    /\ id \in connections
    /\ TotalQueued(Ids) < MaxBacklog
    /\ LET R == Send(Cur, "recv_tx", id, act) IN
       /\ Commit(R)
       /\ last' = Call("writer_send", id, act.m, Outcome(R))
    /\ UNCHANGED <<held, issued, envVars>>

\* the writer worker by itself: its channel, the socket it writes to, and
\* the Connection whose drop closes the channel
NextWriterWorker ==
    \/ \E cloneOk \in BOOLEAN : Accept(cloneOk, MaxWriters)
    \/ \E id \in ConnIds, act \in WriterActions : WriterSend(id, act)
    \/ \E id \in ConnIds : Remove(id)
    \/ \E id \in ConnIds : WriterStep(id)
    \/ \E id \in ConnIds : ClientClose(id)

WriterWorker == Init /\ [][NextWriterWorker]_vars

\* the reader worker by itself: its control channel, its socket and the
\* inbound queue it relays to
NextReaderWorker ==
    \/ \E cloneOk \in BOOLEAN : Accept(cloneOk, MaxConns)
    \/ \E id \in ConnIds : ControlSend(id, ActionDisconnect)
    \/ \E id \in ConnIds : ReaderPoll(id) \/ ReaderRead(id)
    \/ \E id \in ConnIds : ClientSend(id, "Ping")

ReaderWorker == Init /\ [][NextReaderWorker]_vars

\* the server with clients that also write what the router does not expect
NextRouter ==
    \/ \E cloneOk \in BOOLEAN : Accept(cloneOk, MaxConns)
    \/ \E raced \in BOOLEAN : Dispatch(raced)
    \/ Workers
    \/ \E id \in ConnIds, line \in Lines : ClientSend(id, line)
    \/ \E id \in ConnIds : ClientClose(id)

Router == Init /\ [][NextRouter]_vars

\* ---------------------------------------------------------------- server.rs
\* a create_client that does not unwrap what insert returns
create_client_InsertOnly(rc) ==
    [next_id |-> rc.next_id + 1,
     clients |-> rc.clients \cup {rc.next_id},
     out     |-> "run"]

\* RemoteClients::create_client on the registry rc: the id is taken, the
\* client is inserted, and the Option that HashMap::insert returns (None
\* unless the key was there) is unwrapped
create_client(rc) ==
    LET id == rc.next_id IN
    [next_id |-> rc.next_id + 1,
     clients |-> rc.clients \cup {id},
     out     |-> IF id \in rc.clients THEN "run" ELSE "panic"]

\* a client connects (ok) or a connection attempt fails, ahead of the listener
Connect(ok) ==
    /\ Len(incoming) < MaxIncoming
    /\ incoming' = Append(incoming, ok)
    /\ UNCHANGED <<listener, clients, remote_next_id, poisoned, lockVars, connVars>>

\* Server::run, one turn of `for stream in listener.incoming()` in the
\* listener thread: an Ok stream goes to clients.lock().unwrap()
\* .create_client(..), an Err is logged. A panic inside create_client ends
\* the thread and poisons the mutexes whose guards it holds.
ListenerStep ==
    /\ listener = "run"
    /\ incoming # <<>>
    /\ incoming' = Tail(incoming)
    /\ IF Head(incoming)
       THEN IF poisoned
            THEN /\ listener' = "panic"               \* lock().unwrap() on a poisoned mutex
                 /\ UNCHANGED <<clients, remote_next_id, poisoned>>
            ELSE LET R == create_client([next_id |-> remote_next_id, clients |-> clients]) IN
                 /\ clients' = R.clients
                 /\ remote_next_id' = R.next_id
                 /\ listener' = R.out
                 /\ poisoned' = (R.out = "panic")
       ELSE UNCHANGED <<listener, clients, remote_next_id, poisoned>>
    /\ UNCHANGED <<lockVars, connVars>>

NextListener ==
    \/ \E ok \in BOOLEAN : Connect(ok)
    \/ ListenerStep

Listener == Init /\ [][NextListener]_vars

\* ---------------------------------------------------------------- server.rs, the locks
\* the thread of a RemoteClient has returned
WorkerEnded(id) == worker[id] \in {"ok", "err"}

\* the Server and its registry are gone: the owner of the Server has dropped
\* it and the listener thread, which holds the other Arc, has ended
RegistryGone == main \in {"done", "panic"} /\ listener = "panic"

\* RemoteClient.sender of client id still exists: the client is in the map,
\* or in terminate_all's Drain, or in the hands of create_client
RemoteSenderAlive(id) ==
    /\ ~RegistryGone
    /\ \/ id \in clients
       \/ \E i \in DOMAIN drained : drained[i] = id
       \/ listener = "insert" /\ id = remote_next_id

\* Server::run, the listener thread: the next stream of listener.incoming();
\* for an Ok stream `clients.lock().unwrap()`, which waits while the owner of
\* the Server holds the lock; an Err is logged
ListenerTake ==
    /\ listener = "run"
    /\ incoming # <<>>
    /\ incoming' = Tail(incoming)
    /\ IF Head(incoming)
       THEN /\ server_lock = "free"
            /\ remote_next_id < MaxConns
            /\ IF poisoned
               THEN listener' = "panic" /\ server_lock' = server_lock
               ELSE listener' = "create" /\ server_lock' = "listener"
       ELSE UNCHANGED <<listener, server_lock>>
    /\ UNCHANGED <<clients, remote_next_id, poisoned, map_lock, main, drained, worker,
                   mail, connVars>>

\* create_client up to its insert: RemoteClient::new spawns the client's
\* thread, which waits on its channel; then `self.clients.lock().unwrap()`
ListenerCreate ==
    /\ listener = "create"
    /\ map_lock = "free"
    /\ worker' = [worker EXCEPT ![remote_next_id] = "recv"]
    /\ map_lock' = "listener"
    /\ listener' = "insert"
    /\ UNCHANGED <<incoming, clients, remote_next_id, poisoned, server_lock, main,
                   drained, mail, connVars>>

\* create_client, `.insert(id, client).unwrap()`, and the end of the
\* listener's statement: both guards are dropped, by a panic with poison
ListenerInsert ==
    /\ listener = "insert"
    /\ LET R == create_client([next_id |-> remote_next_id, clients |-> clients]) IN
       /\ clients' = R.clients
       /\ remote_next_id' = R.next_id
       /\ listener' = R.out
       /\ poisoned' = (R.out = "panic")
    /\ server_lock' = "free"
    /\ map_lock' = "free"
    /\ UNCHANGED <<incoming, main, drained, worker, mail, connVars>>

\* Drop for Server: `self.clients.lock().unwrap()`, which waits while the
\* listener holds the lock and panics on a poisoned one
MainDrop ==
    /\ main = "run"
    /\ server_lock = "free"
    /\ IF poisoned
       THEN main' = "panic" /\ server_lock' = server_lock
       ELSE main' = "terminate_all" /\ server_lock' = "main"
    /\ UNCHANGED <<incoming, listener, clients, remote_next_id, poisoned, map_lock,
                   drained, worker, mail, connVars>>

\* terminate_all: `self.clients.lock().unwrap().drain()`; the Drain yields
\* the clients in the order of the map
MainDrain ==
    /\ main = "terminate_all"
    /\ map_lock = "free"
    /\ map_lock' = "main"
    /\ main' = "next"
    /\ clients' = {}
    /\ \E order \in Orders(clients) : drained' = order
    /\ UNCHANGED <<incoming, listener, remote_next_id, poisoned, server_lock, worker,
                   mail, connVars>>

\* terminate_all, one step of the collect over the Drain. For the next
\* client RemoteClient::terminate sends Terminate (an Err ends the collect,
\* and the rest of the Drain is dropped) and goes on to
\* `self.handle.join()`, which returns once the client's thread has ended;
\* the client is dropped with the call. With the Drain empty the statement
\* ends and both guards are dropped.
MainTerminate ==
    /\ main \in {"next", "join"}
    /\ IF main = "join"
       THEN /\ WorkerEnded(Head(drained))
            /\ main' = "next"
            /\ drained' = Tail(drained)
            /\ UNCHANGED <<server_lock, map_lock, mail>>
       ELSE IF drained = <<>>
       THEN /\ main' = "done"
            /\ server_lock' = "free"
            /\ map_lock' = "free"
            /\ UNCHANGED <<drained, mail>>
       ELSE IF WorkerEnded(Head(drained))
       THEN /\ main' = "done"                           \* Err(Error::SendError)
            /\ drained' = <<>>
            /\ server_lock' = "free"
            /\ map_lock' = "free"
            /\ mail' = mail
       ELSE /\ main' = "join"
            /\ mail' = [mail EXCEPT ![Head(drained)] = Append(@, "Terminate")]
            /\ UNCHANGED <<drained, server_lock, map_lock>>
    /\ UNCHANGED <<incoming, listener, clients, remote_next_id, poisoned, worker, connVars>>

\* RemoteClient::new, the client's thread: `rx.recv()?` waits for a message
\* or for the Sender to go; Terminate is answered by a write of
\* Message::Disconnect and the end of the loop, any other message by a read
\* of the client's socket, which waits for the client
RemoteWorkerStep(id) ==
    /\ worker[id] \in {"recv", "write", "read"}
    /\ IF worker[id] = "recv"
       THEN /\ ~(mail[id] = <<>> /\ RemoteSenderAlive(id))
            /\ IF mail[id] = <<>>
               THEN worker' = [worker EXCEPT ![id] = "err"] /\ mail' = mail
               ELSE /\ worker' = [worker EXCEPT ![id] =
                                     IF Head(mail[id]) = "Terminate" THEN "write" ELSE "read"]
                    /\ mail' = [mail EXCEPT ![id] = Tail(@)]
       ELSE /\ worker' = [worker EXCEPT ![id] = IF worker[id] = "write" THEN "ok" ELSE "recv"]
            /\ mail' = mail
    /\ UNCHANGED <<incoming, listener, clients, remote_next_id, poisoned, server_lock,
                   map_lock, main, drained, connVars>>

\* Server::run and the drop of the Server, with the guards of the two mutexes
NextServerLocks ==
    \/ \E ok \in BOOLEAN : Connect(ok)
    \/ ListenerTake
    \/ ListenerCreate
    \/ ListenerInsert
    \/ MainDrop
    \/ MainDrain
    \/ MainTerminate
    \/ \E id \in ConnIds : RemoteWorkerStep(id)

ServerLocks == Init /\ [][NextServerLocks]_vars

\* ---------------------------------------------------------------- claims
\* the entries of ev that are sends, in order
Sends == SelectSeq(ev, LAMBDA e : e.kind = "send")

\* the forward calls of the pass of the last forward_to_all: sends of the
\* broadcast message
IsPassForward(e) == e.kind = "send" /\ e.act = ActionForward(last.msg)

\* C1: forward_to_all(m, X) never calls Connection.forward on X: during the
\* call nothing is sent on either control channel of the source connection.
C1_SourceNeverForwarded ==
    last.op = "forward_to_all" =>
        \A i \in DOMAIN ev : ~(ev[i].kind = "send" /\ ev[i].id = last.id)

\* C1 witness: a broadcast whose source is registered has sent to another connection
C1_Witness ==
    /\ last.op = "forward_to_all"
    /\ last.id \in connections
    /\ \E i \in DOMAIN ev : ev[i].kind = "send" /\ ev[i].ok /\ ev[i].id # last.id

C3_IdsIncrease ==
    /\ \A i, j \in DOMAIN issued : i < j => issued[i] < issued[j]
    /\ \A i \in DOMAIN issued : issued[i] < next_id
    /\ \A id \in connections : id < next_id
    /\ \A i \in DOMAIN ev : ev[i].kind # "dup"

\* C3 witness: add has returned an id after an earlier connection was removed
C3_Witness ==
    /\ last.op = "add"
    /\ last.res = "Ok"
    /\ Len(issued) >= 2
    /\ issued[1] \notin connections

\* C10: the two worker handles of a Connection are taken together, and a
\* Connection whose handles are taken has neither worker left running
\* without a stop signal queued for it.
C10_BothOrNeither ==
    \A id \in Ids :
        /\ send_worker[id] = recv_worker[id]
        /\ (reader[id] # "none" /\ ~send_worker[id]) =>
              /\ reader[id] \in {"poll", "read"} =>
                    \E i \in DOMAIN send_tx[id] : send_tx[id][i] = ActionDisconnect
              /\ writer[id] = "run" =>
                    \E i \in DOMAIN recv_tx[id] : recv_tx[id][i] = ActionDisconnect

\* C10 witness: a disconnect has returned and left a stop signal queued
C10_Witness ==
    \E id \in Ids :
        /\ last.op \in {"disconnect", "remove", "disconnect_all"}
        /\ last.res = "Ok"
        /\ reader[id] # "none"
        /\ ~send_worker[id] /\ ~recv_worker[id]
        /\ writer[id] = "run"
        /\ recv_tx[id] = <<ActionDisconnect>>

\* C4: forward on a connection whose writer's queue is open returns Ok with
\* the message appended to the writer's queue; it returns SenderDisconnected
\* and sends nothing exactly when the writer's queue is closed.
C4_ForwardContract ==
    last.op = "forward" =>
        IF writer[last.id] = "run"
        THEN /\ last.res = "Ok"
             /\ recv_tx[last.id] # <<>>
             /\ recv_tx[last.id][Len(recv_tx[last.id])] = ActionForward(last.msg)
        ELSE /\ last.res = "SenderDisconnected"
             /\ \A i \in DOMAIN ev : ~(ev[i].kind = "send" /\ ev[i].ok)

\* a client has closed its socket or the clients have sent a second message
Interfered == sent > 1 \/ \E c \in Ids : peerClosed[c]

\* no thread of the server can take a step: the dispatch loop waits on the
\* inbound queue (or has ended), every reader waits on its socket, every
\* writer on its queue
Quiescent == ~ENABLED (Workers \/ \E raced \in BOOLEAN : Dispatch(raced))

\* C5: scenario A. The Ping of client s was taken by the dispatch loop with
\* the three connections registered and alive, no client has closed its
\* socket or sent another message, and no thread has a step left: each of the
\* two other clients has been written exactly one Ping and s none.
C5_ScenarioA ==
    \A s \in Ids :
        ([id |-> s, msg |-> "Ping", live |-> TRUE] \in taken /\ ~Interfered /\ Quiescent) =>
            /\ sockOut[s] = <<>>
            /\ \A c \in Ids \ {s} : sockOut[c] = <<"Ping">>

\* C6: scenario C. A connection whose peer has closed its socket and whose
\* forward fails in a pass of forward_to_all is out of the registry when that
\* call ends.
C6_EvictedInPass ==
    last.op = "forward_to_all" =>
        \A i \in DOMAIN ev :
            (IsPassForward(ev[i]) /\ ~ev[i].ok /\ peerClosed[ev[i].id]) =>
                ev[i].id \notin connections

\* C7: scenario B. Once the Disconnect of a client has been dispatched, its id
\* stays out of the registry, nothing more is queued for its writer, and no
\* pair of that id is taken from the inbound queue for routing.
C7_ScenarioB ==
    [][\A id \in disconnected :
          /\ id \notin connections'
          /\ Len(recv_tx'[id]) <= Len(recv_tx[id])
          /\ ~(last'.op = "forward_to_all" /\ last'.id = id)]_vars

\* C8: disconnect is idempotent. A registry call that disconnects a
\* Connection and then drops it (the second disconnect) does not panic and
\* sends the client of a connection at most one Disconnect message.
C8_DisconnectOnce ==
    last.op = "disconnect" =>
        /\ last.res \notin {"panic", "abort"}
        /\ \A id \in Ids :
              Cardinality({i \in DOMAIN ev :
                              /\ ev[i].kind = "send" /\ ev[i].ok /\ ev[i].id = id
                              /\ ev[i].act = ActionForward("Disconnect")}) <= 1

\* C9: a disconnect of a Connection that still has both workers sends, in
\* this order, the Disconnect message to the writer, the stop signal to the
\* writer, the stop signal to the reader; the last two also when the first
\* send fails.
C9_DisconnectOrder ==
    [][(last'.op = "conn_disconnect" /\ send_worker[last'.id] /\ recv_worker[last'.id]) =>
          LET snd == SelectSeq(ev', LAMBDA e : e.kind = "send") IN
          /\ Len(snd) = 3
          /\ snd[1].act = ActionForward("Disconnect") /\ ReceiverOf(snd[1].ch) = "writer"
          /\ snd[2].act = ActionDisconnect /\ ReceiverOf(snd[2].ch) = "writer"
          /\ snd[3].act = ActionDisconnect /\ ReceiverOf(snd[3].ch) = "reader"]_vars

\* the Connection of id has been made and destroyed: its Senders are gone
Destroyed(id) == reader[id] # "none" /\ ~SendersAlive(id)

\* C11: no worker thread is leaked. Once a Connection is destroyed and its
\* workers have no step left to take (the peer sends nothing more), both the
\* reader and the writer have terminated.
C11_NoWorkerLeaked ==
    \A id \in Ids :
        (/\ ~aborted
         /\ Destroyed(id)
         /\ ~ENABLED (ReaderPoll(id) \/ ReaderRead(id) \/ WriterStep(id))) =>
            /\ reader[id] \notin {"poll", "read"}
            /\ writer[id] # "run"

\* C12: remove(id) and disconnect(id) with an id that is no key of the map
\* return InvalidConnectionId, leave the map and next_id as they are and send
\* nothing to any worker; with a key of the map they remove that key and
\* leave the entries, handles and queues of every other connection alone.
C12_RemoveContract ==
    [][last'.op \in {"remove", "disconnect"} =>
          IF last'.id \notin connections
          THEN /\ last'.res = "InvalidConnectionId"
               /\ connections' = connections
               /\ next_id' = next_id
               /\ send_tx' = send_tx /\ recv_tx' = recv_tx
               /\ \A i \in DOMAIN ev' : ev'[i].kind # "send"
          ELSE /\ connections' = connections \ {last'.id}
               /\ next_id' = next_id
               /\ \A j \in Ids \ {last'.id} :
                     /\ send_worker'[j] = send_worker[j] /\ recv_worker'[j] = recv_worker[j]
                     /\ send_tx'[j] = send_tx[j] /\ recv_tx'[j] = recv_tx[j]]_vars

\* C12 witness: a remove or disconnect of an absent id has failed while the
\* map holds another connection
C12_Witness ==
    /\ last.op \in {"remove", "disconnect"}
    /\ last.res = "InvalidConnectionId"
    /\ last.id \notin connections
    /\ connections # {}

\* C13: disconnect_all returns Ok and leaves the map empty after a disconnect
\* of every connection that was in the map, whatever the state of their
\* workers.
C13_DisconnectAllOk ==
    [][last'.op = "disconnect_all" =>
          /\ last'.res = "Ok"
          /\ connections' = {}
          /\ \A id \in connections :
                \E i \in DOMAIN ev' : ev'[i].kind = "disconnect" /\ ev'[i].id = id]_vars

\* C14: scenario D. When the dispatch loop takes a pair whose message is
\* neither Ping, Text nor Disconnect, the loop ends with UnexpectedMessage
\* carrying that message, and nothing is sent to any connection.
C14_ScenarioD ==
    [][(/\ dispatch = "run"
        /\ inbound # <<>>
        /\ Head(inbound)[2] \notin {"Ping", "Text", "Disconnect"}
        /\ got' # got) =>
          /\ dispatch' = "err"
          /\ last' = Call("dispatch", Head(inbound)[1], Head(inbound)[2], "UnexpectedMessage")
          /\ got' = Append(got, Head(inbound))
          /\ connections' = connections
          /\ send_tx' = send_tx /\ recv_tx' = recv_tx]_vars

\* C14 witness: the loop has ended on an InvalidMessage while another
\* connection was registered and alive
C14_Witness ==
    /\ last.op = "dispatch"
    /\ last.msg = "InvalidMessage"
    /\ dispatch = "err"
    /\ \E c \in connections : c # last.id /\ reader[c] \in {"poll", "read"} /\ writer[c] = "run"

\* the pairs of connection id among seq, in order
PairsOf(seq, id) == SelectSeq(seq, LAMBDA p : p[1] = id)

\* the pairs the reader of connection id has made of what it read, in order
ReadPairs(id) == [i \in DOMAIN recvd[id] |-> <<id, recvd[id][i]>>]

\* C15: for every connection, the pairs of its reader that the dispatch loop
\* has received, followed by those still on the inbound queue, are a prefix
\* of what the reader read, in the order it read them; while the dispatch
\* loop runs they are all of it.
C15_ReaderOrder ==
    \A id \in Ids :
        LET seen == PairsOf(got \o inbound, id) IN
        /\ Len(seen) <= Len(ReadPairs(id))
        /\ seen = SubSeq(ReadPairs(id), 1, Len(seen))
        /\ dispatch = "run" => seen = ReadPairs(id)

\* C15 witness: the dispatch loop has received two different messages of one
\* connection
C15_Witness ==
    /\ Len(got) = 2
    /\ got[1][1] = got[2][1]
    /\ got[1][2] # got[2][2]

\* C16: Message::recv takes exactly one line from the stream per call. A
\* recv that finds lines on the stream returns the first one and leaves every
\* later line for the next call.
C16_OneLinePerRecv ==
    [][\A id \in Ids :
          (reader[id] = "read" /\ sockIn[id] # <<>> /\ reader'[id] # "read") =>
              /\ sockIn'[id] = Tail(sockIn[id])
              /\ recvd'[id] = Append(recvd[id], Head(sockIn[id]))]_vars

\* C17: the accept activity. Every stream the listener accepts gives a new
\* entry of the client registry under a fresh id, an accept error changes
\* nothing, and after either the listener thread still runs with the
\* registry lock usable.
C17_AcceptKeepsRunning ==
    [][(listener = "run" /\ incoming # <<>> /\ incoming' = Tail(incoming)) =>
          /\ listener' = "run"
          /\ ~poisoned'
          /\ IF Head(incoming)
             THEN /\ remote_next_id \notin clients
                  /\ clients' = clients \cup {remote_next_id}
                  /\ remote_next_id' = remote_next_id + 1
             ELSE clients' = clients /\ remote_next_id' = remote_next_id]_vars

\* C18: no reader worker is ever handed an Action::Forward: none is queued on
\* a reader's control channel, and no reader has panicked on one.
C18_ReaderNeverForwards ==
    \A id \in Ids :
        /\ \A i \in DOMAIN send_tx[id] :
              ReceiverOf("send_tx") = "reader" => send_tx[id][i].a # "Forward"
        /\ reader[id] # "panic"

\* C19: the reader polls its control channel before every socket read: it
\* enters a read only from a poll that found the channel empty, and after a
\* read it is back at the poll or has ended. A poll that finds a stop signal
\* ends the worker with Ok, and from then on it reads nothing from its socket
\* and pushes nothing onto the inbound queue.
C19_PollBeforeRead ==
    [][\A id \in Ids :
          /\ (reader[id] # "read" /\ reader'[id] = "read") =>
                reader[id] = "poll" /\ send_tx[id] = <<>>
          /\ (reader[id] = "read" /\ reader'[id] # "read") =>
                reader'[id] \in {"poll", "err", "send_err"}
          /\ (/\ reader[id] = "poll" /\ send_tx[id] # <<>>
              /\ Head(send_tx[id]) = ActionDisconnect
              /\ reader'[id] # "poll") =>
                reader'[id] = "ok" /\ sockIn' = sockIn /\ inbound' = inbound /\ recvd' = recvd
          /\ reader[id] = "ok" =>
                /\ reader'[id] = "ok"
                /\ Len(sockIn'[id]) >= Len(sockIn[id])
                /\ recvd'[id] = recvd[id]
                /\ PairsOf(inbound', id) = PairsOf(inbound, id)]_vars

\* C19 witness: a reader has ended with Ok on a stop signal while a line of
\* its client was waiting on the socket
C19_Witness ==
    \E id \in Ids : reader[id] = "ok" /\ sockIn[id] # <<>> /\ recvd[id] # <<>>

\* C20: the reader ends on its first failure. A read that fails or gives a
\* line that does not decode (EOF included) ends it with that error, a closed
\* inbound queue ends it with SendError; the step pushes nothing, touches no
\* other thread, and a reader that has ended so stays ended, reads no more
\* and pushes no more.
C20_EndsOnFirstFailure ==
    [][\A id \in Ids :
          /\ (reader[id] = "read" /\ reader'[id] # "read") =>
                LET line == IF sockIn[id] # <<>> THEN Head(sockIn[id]) ELSE "eof" IN
                /\ ~Decodes(line) => reader'[id] = "err" /\ inbound' = inbound
                /\ (Decodes(line) /\ dispatch # "run") =>
                      reader'[id] = "send_err" /\ inbound' = inbound
                /\ reader'[id] \in {"err", "send_err"} =>
                      /\ \A j \in Ids \ {id} : reader'[j] = reader[j]
                      /\ writer' = writer
                      /\ dispatch' = dispatch
                      /\ ~aborted'
          /\ reader[id] \in {"err", "send_err"} =>
                /\ reader'[id] = reader[id]
                /\ Len(sockIn'[id]) >= Len(sockIn[id])
                /\ recvd'[id] = recvd[id]
                /\ Len(PairsOf(inbound', id)) <= Len(PairsOf(inbound, id))]_vars

\* C20 witness: one reader has ended on a read or decode error and another on
\* the closed inbound queue, and the writers of both still run
C20_Witness ==
    \E id, j \in Ids :
        /\ reader[id] = "err" /\ reader[j] = "send_err"
        /\ writer[id] = "run" /\ writer[j] = "run"

\* the messages of the Forward actions of queue that come before its first
\* stop signal
RECURSIVE ForwardsBeforeStop(_)
ForwardsBeforeStop(queue) ==
    IF queue = <<>> \/ Head(queue).a = "Disconnect" THEN <<>>
    ELSE <<Head(queue).m>> \o ForwardsBeforeStop(Tail(queue))

HasStop(queue) == \E i \in DOMAIN queue : queue[i] = ActionDisconnect

\* C21: what the writer has written is, in order, a prefix of the messages
\* enqueued for it before the first stop signal: nothing behind the stop
\* signal is written. A running writer has every such message either written
\* or still queued; a writer that ended with an error left one of them
\* unwritten; a writer that ended with Ok while its Senders exist has taken
\* the stop signal, after writing all that was enqueued before it.
C21_WriterContract ==
    \A id \in Ids :
        LET due == ForwardsBeforeStop(queued[id]) IN
        /\ Len(sockOut[id]) <= Len(due)
        /\ sockOut[id] = SubSeq(due, 1, Len(sockOut[id]))
        /\ writer[id] = "run" => sockOut[id] \o ForwardsBeforeStop(recv_tx[id]) = due
        /\ writer[id] = "err" => Len(sockOut[id]) < Len(due)
        /\ (writer[id] = "ok" /\ SendersAlive(id)) =>
              HasStop(queued[id]) /\ sockOut[id] = due

\* C21 witness: a writer has written two different messages, has taken the
\* stop signal behind them and ended with Ok, its Senders still there, and a
\* Forward that was queued behind the stop signal was never written
C21_Witness ==
    \E id \in Ids :
        /\ writer[id] = "ok"
        /\ SendersAlive(id)
        /\ Len(queued[id]) >= 3
        /\ queued[id][1] = ActionForward("Ping")
        /\ queued[id][2] = ActionDisconnect
        /\ queued[id][3].a = "Forward"
        /\ sockOut[id] = <<"Ping">>

\* a thread of server.rs waits in an operation that can block on a peer or
\* on another thread: the join of a client's thread (the sends of server.rs
\* go to unbounded channels and return at once; the socket reads and writes
\* are made by the clients' threads)
BlockedMain == main = "join" /\ ~WorkerEnded(Head(drained))

FailedInPass == {ev'[i].id : i \in {j \in DOMAIN ev' : ev'[j].kind = "send"
                                                     /\ ev'[j].act = ActionForward(last'.msg)
                                                     /\ ~ev'[j].ok}}

\* C23: forward_to_all returns Ok without a panic, leaves next_id alone and
\* takes out of the map exactly the connections whose forward failed in its
\* pass: the source, if registered, and every connection whose forward
\* succeeded are still there.
C23_ForwardToAllFrame ==
    [][last'.op = "forward_to_all" =>
          /\ last'.res = "Ok"
          /\ next_id' = next_id
          /\ connections' = connections \ FailedInPass
          /\ last'.id \in connections => last'.id \in connections']_vars

====
